---- MODULE Spec2Model ----
(***************************************************************************)
(* Model of neural_server.py: the rule-based combat policy                 *)
(* (heuristic_policy), the per-connection handler (handle_connection) and  *)
(* the sequential accept loop of main.                                     *)
(*                                                                         *)
(* Numbers: observation fields are modelled by integers; a confidence is   *)
(* kept in hundredths (0.99 is 99).  A JSON value is a record with a type  *)
(* tag t, because the policy's failures are Python type errors; json.loads *)
(* also accepts the literal NaN, a float every comparison of which is      *)
(* false.                                                                  *)
(***************************************************************************)
EXTENDS Integers, Sequences, FiniteSets, TLC

\* ------------------------------------------------------------------------
\* Bounds of the model
\* ------------------------------------------------------------------------
MaxEntities == 3
MaxBacklog == 2
MaxMsgLen == 12289

\* ------------------------------------------------------------------------
\* Program constants
\* ------------------------------------------------------------------------
RecvSize == 4096
MaxData == 8192
DefaultHealth == 20
DefaultEntityDistance == 99

\* ------------------------------------------------------------------------
\* JSON values as json.loads produces them
\* ------------------------------------------------------------------------
Num(n) == [t |-> "num", v |-> n]
Str == [t |-> "str", v |-> 0]
Null == [t |-> "null", v |-> 0]
Absent == [t |-> "absent", v |-> 0]
NaN == [t |-> "nan", v |-> 0]

\* an int or a float: the operand types <, <=, > and abs accept
IsNum(x) == x.t \in {"num", "nan"}

\* Python's comparisons of a number x with the literal k
Le(x, k) == x.t = "num" /\ x.v <= k
Lt(x, k) == x.t = "num" /\ x.v < k
Gt(x, k) == x.t = "num" /\ x.v > k

\* dict.get(key, default): the default only replaces a missing key
Get(x, default) == IF x.t = "absent" THEN default ELSE x

IsNone_nullOnly(x) == x.t = "null"

\* dict.get(key): a missing key and a JSON null both give None
IsNone(x) == x.t \in {"absent", "null"}

Abs(n) == IF n < 0 THEN -n ELSE n

\* a hostile record, and the values nearest_hostile can hold instead
Hostile(d, a) == [t |-> "rec", distance |-> d, angle |-> a]
NoHostile == [t |-> "null", distance |-> Absent, angle |-> Absent]
HostileKeyMissing == [t |-> "absent", distance |-> Absent, angle |-> Absent]
HostileNotRecord == [t |-> "str", distance |-> Absent, angle |-> Absent]

\* an element of all_entities
Entity(d) == [t |-> "rec", distance |-> d]
EntityNotRecord == [t |-> "num", distance |-> Absent]

\* the value of all_entities
EntityList(s) == [t |-> "list", items |-> s]
EntitiesNull == [t |-> "null", items |-> <<>>]
EntitiesKeyMissing == [t |-> "absent", items |-> <<>>]

\* a decoded request: a JSON object, or some other JSON value (a list, ...)
Observation(h, ho, es) ==
    [t |-> "rec", bot_health |-> h, nearest_hostile |-> ho, all_entities |-> es]
NotARecord ==
    [t |-> "other", bot_health |-> Absent, nearest_hostile |-> HostileKeyMissing,
     all_entities |-> EntitiesKeyMissing]

\* ------------------------------------------------------------------------
\* heuristic_policy
\* ------------------------------------------------------------------------
\* outcome of a call: a returned decision (with the line's rule number of
\* the documented chain), or a raised exception
Ret(a, c, r) == [raised |-> FALSE, exc |-> "none", action |-> a, confidence |-> c, rule |-> r]
Raise(e) == [raised |-> TRUE, exc |-> e, action |-> "none", confidence |-> 0, rule |-> 0]

\* e.get("distance", 99) < 8 for one element; the element's failure modes
EntityFails(e) ==
    \/ e.t # "rec"
    \/ ~IsNum(Get(e.distance, Num(DefaultEntityDistance)))

IsNearby(e) == Lt(Get(e.distance, Num(DefaultEntityDistance)), 8)

RECURSIVE NearbyCount(_)
NearbyCount(s) ==
    IF s = <<>> THEN 0
    ELSE (IF IsNearby(Head(s)) THEN 1 ELSE 0) + NearbyCount(Tail(s))

\* the exception the generator of line 35 raises at the first bad element
RECURSIVE FirstEntityError(_)
FirstEntityError(s) ==
    IF s = <<>> THEN "none"
    ELSE IF Head(s).t # "rec" THEN "AttributeError"
    ELSE IF EntityFails(Head(s)) THEN "TypeError"
    ELSE FirstEntityError(Tail(s))

CriticalHealth_strict(health) == Lt(health, 4)

CriticalHealth(health) == Le(health, 4)

SwarmFlee(nearby_count, health) == nearby_count >= 3 /\ Lt(health, 15)

TargetBehind(angle) == Gt(angle, 90)

TargetFar(dist) == Gt(dist, 6)

CloseRange_strict(dist, angle) == Lt(dist, 3) /\ Lt(angle, 45)

CloseRange(dist, angle) == Le(dist, 3) /\ Lt(angle, 45)

MidRange_strict(dist) == Lt(dist, 6)

MidRange(dist) == Le(dist, 6)

\* abs(hostile.get("angle", 0))
HostileAngle(a) == IF a.t = "num" THEN Num(Abs(a.v)) ELSE a

CriticalFlee_useItem == Ret("use_item", 99, 1)

CriticalFlee == Ret("flee", 99, 1)

IdleDecision_fallbackConfidence == Ret("idle", 50, 2)

IdleDecision == Ret("idle", 95, 2)

SwarmFleeDecision == Ret("flee", 85, 4)

Coins_leftOnly == {"strafe_left"}

\* the list random.choice draws from at line 46
Coins == {"strafe_left", "strafe_right"}

EngageChain_behindUsesCoin(dist, angle, coin) ==
    IF TargetBehind(angle) THEN Ret(coin, 70, 5)
    ELSE IF ~IsNum(dist) THEN Raise("TypeError")
    ELSE IF TargetFar(dist) THEN Ret("attack", 60, 6)
    ELSE IF CloseRange(dist, angle) THEN Ret("attack", 95, 7)
    ELSE IF MidRange(dist) THEN Ret(coin, 75, 8)
    ELSE Ret("attack", 60, 9)

\* lines 39-47, once dist and angle are known to be numbers where needed
EngageChain(dist, angle, coin) ==
    IF TargetBehind(angle) THEN Ret("strafe_left", 70, 5)
    ELSE IF ~IsNum(dist) THEN Raise("TypeError")
    ELSE IF TargetFar(dist) THEN Ret("attack", 60, 6)
    ELSE IF CloseRange(dist, angle) THEN Ret("attack", 95, 7)
    ELSE IF MidRange(dist) THEN Ret(coin, 75, 8)
    ELSE Ret("attack", 60, 9)

\* coin is the value random.choice returns
heuristic_policy(obs, coin) ==
    IF obs.t # "rec" THEN Raise("AttributeError")
    ELSE
      LET health == Get(obs.bot_health, Num(DefaultHealth))
          hostile == obs.nearest_hostile
          all_entities == Get(obs.all_entities, EntityList(<<>>))
      IN
      IF ~IsNum(health) THEN Raise("TypeError")
      ELSE IF CriticalHealth(health) THEN CriticalFlee
      ELSE IF IsNone(hostile) THEN IdleDecision
      ELSE IF hostile.t # "rec" THEN Raise("TypeError")
      ELSE IF hostile.distance.t = "absent" THEN Raise("KeyError")
      ELSE IF ~IsNum(Get(hostile.angle, Num(0))) THEN Raise("TypeError")
      ELSE IF all_entities.t # "list" THEN Raise("TypeError")
      ELSE IF FirstEntityError(all_entities.items) # "none"
           THEN Raise(FirstEntityError(all_entities.items))
      ELSE
        LET dist == hostile.distance
            angle == HostileAngle(Get(hostile.angle, Num(0)))
            nearby_count == NearbyCount(all_entities.items)
        IN
        IF SwarmFlee(nearby_count, health) THEN SwarmFleeDecision
        ELSE EngageChain(dist, angle, coin)


\* ------------------------------------------------------------------------
\* Bytes on the wire
\* ------------------------------------------------------------------------
\* repr of the float literals of the policy, as json.dumps prints them
ConfText(c) ==
    CASE c = 99 -> "0.99"
      [] c = 95 -> "0.95"
      [] c = 85 -> "0.85"
      [] c = 75 -> "0.75"
      [] c = 70 -> "0.7"
      [] c = 60 -> "0.6"
      [] c = 50 -> "0.5"
      [] OTHER -> "?"

\* json.dumps(action) + "\n" with the default separators
json_dumps(d) ==
    "{\"action\": \"" \o d.action \o "\", \"confidence\": " \o ConfText(d.confidence) \o "}"

\* what one sendall call put on the stream; complete = FALSE: a strict
\* prefix of text went out before the call raised
Written(text, a, c, complete) ==
    [text |-> text, action |-> a, confidence |-> c, complete |-> complete]

DecisionBytes(d, complete) ==
    Written(json_dumps(d) \o "\n", d.action, d.confidence, complete)

FallbackText == "{\"action\":\"idle\",\"confidence\":0.5}\n"

FallbackBytes == Written(FallbackText, "idle", 50, TRUE)

\* ------------------------------------------------------------------------
\* What a peer sends: msg.len bytes, the last one a newline when msg.nl;
\* kind "json" is the UTF-8 JSON text of msg.obs, "garbage" is anything
\* json.loads or bytes.decode rejects
\* ------------------------------------------------------------------------
SmallMsg == 100

MsgLens == {n \in {0, SmallMsg, RecvSize, MaxData, MaxData + 1, MaxMsgLen} : n <= MaxMsgLen}

ServerObs ==
    { Observation(Num(3), NoHostile, EntitiesKeyMissing),
      Observation(Absent, NoHostile, EntitiesKeyMissing),
      Observation(Num(20), Hostile(Num(5), Num(50)), EntityList(<<>>)),
      Observation(Num(20), Hostile(Absent, Num(0)), EntityList(<<>>)),
      Observation(Num(14), Hostile(Num(3), Num(10)),
                  EntityList(<<Entity(Num(7)), Entity(Num(7)), Entity(Num(7))>>)),
      Observation(Num(20), Hostile(Num(3), Num(-91)), EntityList(<<>>)),
      Observation(Num(20), Hostile(Num(7), Num(0)), EntityList(<<>>)),
      Observation(Num(5), Hostile(Num(3), Num(10)), EntityList(<<>>)),
      Observation(Num(20), Hostile(NaN, Num(0)), EntityList(<<>>)),
      NotARecord }

Message(k, o, n, nl) == [kind |-> k, obs |-> o, len |-> n, nl |-> nl]

NoMessage == Message("garbage", NotARecord, 0, FALSE)

Messages ==
    {NoMessage}
    \cup {Message("json", o, n, nl) : o \in ServerObs, n \in MsgLens \ {0}, nl \in BOOLEAN}
    \cup {Message("garbage", NotARecord, n, nl) : n \in MsgLens \ {0}, nl \in BOOLEAN}

\* the peer's writes end at these offsets of its message
Cuts == {1} \cup MsgLens

\* b"\n" in data, for the first n bytes of message m
HasNewline(m, n) == m.nl /\ n = m.len /\ n > 0

\* json.loads(data.decode().strip()) on the first n bytes of message m:
\* a proper prefix of a JSON text is not a JSON text
json_loads(m, n) ==
    IF m.kind = "json" /\ n = m.len
    THEN [ok |-> TRUE, obs |-> m.obs]
    ELSE [ok |-> FALSE, obs |-> NotARecord]

Min(a, b) == IF a < b THEN a ELSE b

\* ------------------------------------------------------------------------
\* State
\* ------------------------------------------------------------------------
VARIABLES
    mainPc,      \* main: "accept" (line 97), "handling" (line 98), "stopped"
    backlog,     \* connections established and waiting in the listen queue
    hpc,         \* handle_connection: the statement it is at
    msg,         \* what the peer of the current connection sends
    sent,        \* bytes of msg the peer has sent so far
    peerState,   \* "open", "closed" (orderly shutdown), "reset"
    dataLen,     \* len(data)
    eof,         \* recv has returned b""
    obs,         \* the decoded observation
    action,      \* what policy_fn returned
    out,         \* what sendall put on the stream, in order
    closeCount,  \* calls of conn.close()
    exc,         \* the exception in flight out of the except block
    decodeCalls, \* calls of json.loads
    policyCalls, \* calls of policy_fn
    modelArg,    \* args.model: "heuristic" or "vpt"
    model,       \* main's model: "None" or "loaded"
    policy       \* what main's policy calls: "unset" before line 87

vars == <<mainPc, backlog, hpc, msg, sent, peerState, dataLen, eof, obs, action, out,
          closeCount, exc, decodeCalls, policyCalls, modelArg, model, policy>>

\* set once by main before the loop
cfgVars == <<modelArg, model, policy>>

connVars == <<msg, sent, peerState, dataLen, eof, obs, action, out, closeCount, exc,
              decodeCalls, policyCalls>>

NoAction == Raise("none")

\* no connection in hand
NoConnection ==
    /\ hpc = "none"
    /\ msg = NoMessage
    /\ sent = 0
    /\ peerState = "open"
    /\ dataLen = 0
    /\ eof = FALSE
    /\ obs = NotARecord
    /\ action = NoAction
    /\ out = <<>>
    /\ closeCount = 0
    /\ exc = "none"
    /\ decodeCalls = 0
    /\ policyCalls = 0

\* main has reached its loop, started with the default arguments
Init ==
    /\ mainPc = "accept"
    /\ backlog = 0
    /\ NoConnection
    /\ modelArg = "heuristic"
    /\ model = "None"
    /\ policy = "heuristic"


\* ------------------------------------------------------------------------
\* The peers
\* ------------------------------------------------------------------------
ConnectionOpen == mainPc = "handling" /\ closeCount = 0

\* a client completes the TCP handshake; the kernel queues the connection
PeerConnect ==
    /\ UNCHANGED cfgVars
    /\ mainPc \in {"accept", "handling"}
    /\ backlog < MaxBacklog
    /\ backlog' = backlog + 1
    /\ UNCHANGED <<mainPc, hpc, connVars>>

\* the peer of the current connection sends its message up to offset n
PeerSend(n) ==
    /\ UNCHANGED cfgVars
    /\ ConnectionOpen
    /\ peerState = "open"
    /\ sent < n /\ n <= msg.len
    /\ sent' = n
    /\ UNCHANGED <<mainPc, backlog, hpc, msg, peerState, dataLen, eof, obs, action,
                   out, closeCount, exc, decodeCalls, policyCalls>>

\* the peer shuts its side down in order (FIN): reads see end of stream
PeerClose ==
    /\ UNCHANGED cfgVars
    /\ ConnectionOpen
    /\ peerState = "open"
    /\ peerState' = "closed"
    /\ UNCHANGED <<mainPc, backlog, hpc, msg, sent, dataLen, eof, obs, action,
                   out, closeCount, exc, decodeCalls, policyCalls>>

\* the peer aborts the connection (RST): reads and writes raise OSError
PeerReset ==
    /\ UNCHANGED cfgVars
    /\ ConnectionOpen
    /\ peerState # "reset"
    /\ peerState' = "reset"
    /\ UNCHANGED <<mainPc, backlog, hpc, msg, sent, dataLen, eof, obs, action,
                   out, closeCount, exc, decodeCalls, policyCalls>>

\* ------------------------------------------------------------------------
\* main's loop
\* ------------------------------------------------------------------------
\* conn, _ = server.accept(); handle_connection(conn, policy) is entered
Accept ==
    /\ UNCHANGED cfgVars
    /\ mainPc = "accept"
    /\ backlog > 0
    /\ backlog' = backlog - 1
    /\ mainPc' = "handling"
    /\ hpc' = "recv"
    /\ msg' \in Messages
    /\ UNCHANGED <<sent, peerState, dataLen, eof, obs, action, out, closeCount, exc,
                   decodeCalls, policyCalls>>

\* ------------------------------------------------------------------------
\* handle_connection
\* ------------------------------------------------------------------------
\* line 71: the loop's exit test after data += chunk
LoopExit(m, n) == HasNewline(m, n) \/ n > MaxData

AfterLoop_noEmptyCheck(m, n) == "decode"

AfterLoop_needsNewline(m, n) == IF ~HasNewline(m, n) THEN "finally" ELSE "decode"

\* line 72: if not data: return (m is the message the n bytes are cut from)
AfterLoop(m, n) == IF n = 0 THEN "finally" ELSE "decode"

CloseStream_notOnError(count, e) == IF e = "none" THEN count + 1 ELSE count

\* line 80
CloseStream(count, e) == count + 1

AfterSend_alwaysExcept(ok) == "except"

\* lines 75-76: a sendall that raises inside the try goes to the except block
AfterSend(ok) == IF ok THEN "finally" ELSE "except"

\* line 87: the lambda main passes as policy_fn calls heuristic_policy,
\* whatever was loaded
policy_fn(p, o, coin) == heuristic_policy(o, coin)

\* line 68-71, a chunk arrives
RecvChunk ==
    /\ UNCHANGED cfgVars
    /\ hpc = "recv"
    /\ peerState # "reset"
    /\ sent > dataLen
    /\ LET n == dataLen + Min(RecvSize, sent - dataLen)
       IN /\ dataLen' = n
          /\ hpc' = IF LoopExit(msg, n) THEN AfterLoop(msg, n) ELSE "recv"
    /\ UNCHANGED <<mainPc, backlog, msg, sent, peerState, eof, obs, action, out,
                   closeCount, exc, decodeCalls, policyCalls>>

\* line 68-69, recv returns b"": the peer has shut down and nothing is left
RecvEof ==
    /\ UNCHANGED cfgVars
    /\ hpc = "recv"
    /\ peerState = "closed"
    /\ sent = dataLen
    /\ eof' = TRUE
    /\ hpc' = AfterLoop(msg, dataLen)
    /\ UNCHANGED <<mainPc, backlog, msg, sent, peerState, dataLen, obs, action,
                   out, closeCount, exc, decodeCalls, policyCalls>>

\* line 68, recv raises (ConnectionResetError): control goes to line 76
RecvError ==
    /\ UNCHANGED cfgVars
    /\ hpc = "recv"
    /\ peerState = "reset"
    /\ hpc' = "except"
    /\ UNCHANGED <<mainPc, backlog, msg, sent, peerState, dataLen, eof, obs, action,
                   out, closeCount, exc, decodeCalls, policyCalls>>

\* line 73
Decode ==
    /\ UNCHANGED cfgVars
    /\ hpc = "decode"
    /\ decodeCalls' = decodeCalls + 1
    /\ LET r == json_loads(msg, dataLen)
       IN /\ obs' = r.obs
          /\ hpc' = IF r.ok THEN "policy" ELSE "except"
    /\ UNCHANGED <<mainPc, backlog, msg, sent, peerState, dataLen, eof, action, out,
                   closeCount, exc, policyCalls>>

\* line 74; policy_fn is main's lambda over heuristic_policy (line 87)
InvokePolicy ==
    /\ UNCHANGED cfgVars
    /\ hpc = "policy"
    /\ policyCalls' = policyCalls + 1
    /\ \E coin \in Coins :
         /\ action' = policy_fn(policy, obs, coin)
         /\ hpc' = IF action'.raised THEN "except" ELSE "send"
    /\ UNCHANGED <<mainPc, backlog, msg, sent, peerState, dataLen, eof, obs, out,
                   closeCount, exc, decodeCalls>>

\* line 75
SendDecision ==
    /\ UNCHANGED cfgVars
    /\ hpc = "send"
    /\ \/ /\ peerState # "reset"
          /\ out' = Append(out, DecisionBytes(action, TRUE))
          /\ hpc' = AfterSend(TRUE)
          /\ UNCHANGED peerState
       \/ /\ peerState # "reset"       \* the reset arrives during sendall
          /\ out' = Append(out, DecisionBytes(action, FALSE))
          /\ peerState' = "reset"
          /\ hpc' = AfterSend(FALSE)
       \/ /\ peerState = "reset"
          /\ hpc' = AfterSend(FALSE)
          /\ UNCHANGED <<out, peerState>>
    /\ UNCHANGED <<mainPc, backlog, msg, sent, dataLen, eof, obs, action,
                   closeCount, exc, decodeCalls, policyCalls>>

\* lines 76-78: the exception is logged, the fallback is sent; a sendall
\* that raises here leaves the except block with its own exception
SendFallback ==
    /\ UNCHANGED cfgVars
    /\ hpc = "except"
    /\ \/ /\ peerState # "reset"
          /\ out' = Append(out, FallbackBytes)
          /\ UNCHANGED <<exc, peerState>>
       \/ /\ peerState # "reset"
          /\ out' = Append(out, [FallbackBytes EXCEPT !.complete = FALSE])
          /\ peerState' = "reset"
          /\ exc' = "OSError"
       \/ /\ peerState = "reset"
          /\ exc' = "OSError"
          /\ UNCHANGED <<out, peerState>>
    /\ hpc' = "finally"
    /\ UNCHANGED <<mainPc, backlog, msg, sent, dataLen, eof, obs, action,
                   closeCount, decodeCalls, policyCalls>>

\* lines 79-80, then the handler returns or the exception goes on to main
Finally ==
    /\ UNCHANGED cfgVars
    /\ hpc = "finally"
    /\ closeCount' = CloseStream(closeCount, exc)
    /\ hpc' = IF exc = "none" THEN "returned" ELSE "raised"
    /\ UNCHANGED <<mainPc, backlog, msg, sent, peerState, dataLen, eof, obs, action,
                   out, exc, decodeCalls, policyCalls>>

\* line 96: the handler returned, the loop goes back to accept
LoopBack ==
    /\ UNCHANGED cfgVars
    /\ mainPc = "handling"
    /\ hpc = "returned"
    /\ mainPc' = "accept"
    /\ hpc' = "none"
    /\ msg' = NoMessage
    /\ sent' = 0
    /\ peerState' = "open"
    /\ dataLen' = 0
    /\ eof' = FALSE
    /\ obs' = NotARecord
    /\ action' = NoAction
    /\ out' = <<>>
    /\ closeCount' = 0
    /\ exc' = "none"
    /\ decodeCalls' = 0
    /\ policyCalls' = 0
    /\ UNCHANGED backlog

\* lines 99-102: an exception other than KeyboardInterrupt leaves the loop;
\* the finally closes the listening socket and the process ends
MainRaise ==
    /\ UNCHANGED cfgVars
    /\ mainPc = "handling"
    /\ hpc = "raised"
    /\ mainPc' = "stopped"
    /\ UNCHANGED <<backlog, hpc, connVars>>

Next ==
    \/ PeerConnect
    \/ \E n \in Cuts : PeerSend(n)
    \/ PeerClose
    \/ PeerReset
    \/ Accept
    \/ RecvChunk
    \/ RecvEof
    \/ RecvError
    \/ Decode
    \/ InvokePolicy
    \/ SendDecision
    \/ SendFallback
    \/ Finally
    \/ LoopBack
    \/ MainRaise

Spec == Init /\ [][Next]_vars

\* ------------------------------------------------------------------------
\* main before its loop
\* ------------------------------------------------------------------------
ModelArgs == {"heuristic", "vpt"}

\* how the body of load_vpt_model's try can end
LoadOutcomes == {"ok", "ImportError", "LoadError"}

\* lines 49-62: any Exception is logged and None is returned
load_vpt_model(outcome) == IF outcome = "ok" THEN "loaded" ELSE "None"

SelectPolicy_useLoaded(m) == IF m = "loaded" THEN "vpt" ELSE "heuristic"

\* lines 85-87: a loaded model is only warned about
SelectPolicy(m) == "heuristic"

InitMain ==
    /\ mainPc = "start"
    /\ backlog = 0
    /\ NoConnection
    /\ modelArg \in ModelArgs
    /\ model = "None"
    /\ policy = "unset"

\* lines 83-87
ChoosePolicy ==
    /\ mainPc = "start"
    /\ \E outcome \in LoadOutcomes :
         model' = IF modelArg = "vpt" THEN load_vpt_model(outcome) ELSE "None"
    /\ policy' = SelectPolicy(model')
    /\ mainPc' = "listen"
    /\ UNCHANGED <<modelArg, backlog, hpc, connVars>>

\* lines 89-93
Listen ==
    /\ mainPc = "listen"
    /\ mainPc' = "accept"
    /\ UNCHANGED <<cfgVars, backlog, hpc, connVars>>

NextMain ==
    \/ ChoosePolicy
    \/ Listen
    \/ Next

SpecMain == InitMain /\ [][NextMain]_vars

\* ------------------------------------------------------------------------
\* main's thread keeps running: a step of main or of the handler it is in
\* is taken whenever it can be; nothing is assumed of the peers
\* ------------------------------------------------------------------------
ServerStep ==
    \/ Accept
    \/ RecvChunk
    \/ RecvEof
    \/ RecvError
    \/ Decode
    \/ InvokePolicy
    \/ SendDecision
    \/ SendFallback
    \/ Finally
    \/ LoopBack
    \/ MainRaise

SpecFair == Init /\ [][Next]_vars /\ WF_vars(ServerStep)

HandlerDone == hpc \in {"returned", "raised"}

TypeOK ==
    /\ mainPc \in {"start", "listen", "accept", "handling", "stopped"}
    /\ backlog \in 0..MaxBacklog
    /\ hpc \in {"none", "recv", "decode", "policy", "send", "except", "finally",
                "returned", "raised"}
    /\ msg \in Messages
    /\ sent \in 0..msg.len
    /\ dataLen \in 0..sent
    /\ closeCount \in 0..1


\* ------------------------------------------------------------------------
\* The policy on its whole input domain: a handler that has decoded obs and
\* is about to call policy_fn
\* ------------------------------------------------------------------------
SeqsUpTo(S, n) == UNION {[1..k -> S] : k \in 0..n}

HealthValues == {Absent, Null, Str, NaN, Num(4), Num(5), Num(14), Num(15), Num(20)}

DistanceValues == {Absent, Str, NaN, Num(3), Num(4), Num(6), Num(7)}

AngleValues ==
    {Absent, Str, Num(-91), Num(0), Num(10), Num(44), Num(45), Num(90), Num(91)}

HostileValues ==
    {NoHostile, HostileKeyMissing, HostileNotRecord}
    \cup {Hostile(d, a) : d \in DistanceValues, a \in AngleValues}

EntityValues == {Entity(Num(7)), Entity(Num(8)), Entity(Absent), EntityNotRecord}

EntitiesValues ==
    {EntitiesNull, EntitiesKeyMissing}
    \cup {EntityList(s) : s \in SeqsUpTo(EntityValues, MaxEntities)}

Observations ==
    {NotARecord}
    \cup {Observation(h, ho, es) :
            h \in HealthValues, ho \in HostileValues, es \in EntitiesValues}

InitPolicy ==
    /\ mainPc = "handling"
    /\ backlog = 0
    /\ hpc = "policy"
    /\ obs \in Observations
    /\ msg = Message("json", obs, SmallMsg, TRUE)
    /\ sent = SmallMsg
    /\ peerState = "open"
    /\ dataLen = SmallMsg
    /\ eof = FALSE
    /\ action = NoAction
    /\ out = <<>>
    /\ closeCount = 0
    /\ exc = "none"
    /\ decodeCalls = 1
    /\ policyCalls = 0
    /\ modelArg = "heuristic"
    /\ model = "None"
    /\ policy = "heuristic"

NextPolicy == InvokePolicy

SpecPolicy == InitPolicy /\ [][NextPolicy]_vars

\* policy_fn has been called on obs and action holds its outcome
PolicyCalled == policyCalls = 1 /\ hpc \in {"send", "except"}

Decided(a, c) == ~action.raised /\ action.action = a /\ action.confidence = c


\* ========================================================================
\* Properties of handle_connection and main, under Spec
\* ========================================================================
DecodeFailed == decodeCalls = 1 /\ ~json_loads(msg, dataLen).ok

PolicyRaised == policyCalls = 1 /\ action.raised

HasCompleteResponse == \E i \in DOMAIN out : out[i].complete

\* line 68 cannot return: nothing to read, the peer neither closed nor reset
ReadBlocked == hpc = "recv" /\ peerState = "open" /\ sent = dataLen

\* C1: when at least one byte was received and decoding fails or the policy
\* raises, the handler ends without raising, having written exactly the
\* fallback record and closed the stream.
C1_FallbackOnFailure ==
    (HandlerDone /\ dataLen > 0 /\ (DecodeFailed \/ PolicyRaised))
        => (hpc = "returned" /\ out = <<FallbackBytes>> /\ closeCount = 1)

\* C2: every invocation of handle_connection closes its stream exactly once
\* on every path: never before the finally block, never twice, and always
\* by the time the handler has returned or raised.
C2_ClosedExactlyOnce ==
    /\ closeCount <= 1
    /\ HandlerDone => closeCount = 1
    /\ hpc \in {"recv", "decode", "policy", "send", "except", "finally"} => closeCount = 0

C2_Witness ==
    /\ hpc = "raised" /\ exc = "OSError" /\ closeCount = 1
    /\ dataLen > 0

\* C3: no failure while handling one connection ends the listening loop.
C3_ServiceNeverStops == mainPc # "stopped"

\* C4: while a handler is blocked reading from a peer that has sent no
\* newline, has not reached the cap and has not closed, a connection waiting
\* in the listen queue can still be accepted.
C4_AcceptNotBlockedByReader == (ReadBlocked /\ backlog > 0) => ENABLED Accept

C6_EmptyReadIsSilent ==
    (eof /\ dataLen = 0 /\ hpc # "recv") =>
        /\ out = <<>>
        /\ decodeCalls = 0
        /\ policyCalls = 0
        /\ exc = "none"
        /\ hpc \in {"finally", "returned"}
        /\ HandlerDone => closeCount = 1

C6_Witness ==
    /\ eof /\ dataLen = 0 /\ hpc = "returned"
    /\ closeCount = 1 /\ out = <<>>

\* ========================================================================
\* Properties of heuristic_policy, under SpecPolicy
\* ========================================================================
HealthIn(o) == Get(o.bot_health, Num(DefaultHealth))

\* C7: the policy returns a decision for every decoded observation record
\* and never raises, whatever its fields hold.
C7_PolicyTotal == (PolicyCalled /\ obs.t = "rec") => ~action.raised

\* C8: bot_health <= 4 gives flee with confidence 0.99, whatever the other
\* fields hold.
C8_CriticalHealthFlees ==
    (PolicyCalled /\ obs.t = "rec" /\ obs.bot_health.t = "num" /\ obs.bot_health.v <= 4)
        => Decided("flee", 99)

C8_Witness ==
    /\ PolicyCalled
    /\ obs = Observation(Num(4), Hostile(Absent, Str), EntityList(<<EntityNotRecord>>))
    /\ Decided("flee", 99)

\* C9 as stated: every observation (bot_health a number or missing) whose
\* nearest_hostile is null gives idle with confidence 0.95.
C9_NoHostileIdles ==
    (PolicyCalled /\ obs.t = "rec" /\ IsNone(obs.nearest_hostile)
       /\ HealthIn(obs).t = "num")
        => Decided("idle", 95)

\* C9 amended: every observation whose nearest_hostile is null and whose
\* bot_health is missing or a number greater than 4 gives idle with
\* confidence 0.95, whatever all_entities holds.
C9_NoHostileIdlesAboveCritical ==
    (PolicyCalled /\ obs.t = "rec" /\ IsNone(obs.nearest_hostile)
       /\ HealthIn(obs).t = "num" /\ HealthIn(obs).v > 4)
        => Decided("idle", 95)

C9_Witness ==
    /\ PolicyCalled
    /\ obs = Observation(Num(5), NoHostile, EntitiesNull)
    /\ Decided("idle", 95)

\* the documented chain, rules 1-9, over numbers: h health, present whether
\* there is a hostile, d its distance, a the absolute angle, n the number of
\* entities closer than 8; h and d may be NaN, on which no condition holds
ChainRule(h, present, d, a, n) ==
    IF h.t = "num" /\ h.v <= 4 THEN 1
    ELSE IF ~present THEN 2
    ELSE IF n >= 3 /\ h.t = "num" /\ h.v < 15 THEN 4
    ELSE IF a > 90 THEN 5
    ELSE IF d.t = "num" /\ d.v > 6 THEN 6
    ELSE IF d.t = "num" /\ d.v <= 3 /\ a < 45 THEN 7
    ELSE IF d.t = "num" /\ d.v <= 6 THEN 8
    ELSE 9

ChainActions(r) ==
    CASE r = 1 -> {"flee"}
      [] r = 2 -> {"idle"}
      [] r = 4 -> {"flee"}
      [] r = 5 -> {"strafe_left"}
      [] r = 6 -> {"attack"}
      [] r = 7 -> {"attack"}
      [] r = 8 -> {"strafe_left", "strafe_right"}
      [] r = 9 -> {"attack"}

ChainConfidence(r) ==
    CASE r = 1 -> 99
      [] r = 2 -> 95
      [] r = 4 -> 85
      [] r = 5 -> 70
      [] r = 6 -> 60
      [] r = 7 -> 95
      [] r = 8 -> 75
      [] r = 9 -> 60

WellFormedEntities(es) ==
    \/ es.t = "absent"
    \/ /\ es.t = "list"
       /\ \A i \in DOMAIN es.items :
             es.items[i].t = "rec" /\ es.items[i].distance.t = "num"

WellFormedHostile(ho) ==
    \/ IsNone(ho)
    \/ ho.t = "rec" /\ IsNum(ho.distance) /\ ho.angle.t \in {"num", "absent"}

WellFormed(o) ==
    /\ o.t = "rec"
    /\ IsNum(HealthIn(o))
    /\ WellFormedHostile(o.nearest_hostile)
    /\ WellFormedEntities(o.all_entities)

\* the number of entities of a well-formed o that are closer than 8
NearbyIn(o) ==
    Cardinality({i \in DOMAIN o.all_entities.items : o.all_entities.items[i].distance.v < 8})

AngleIn(o) ==
    IF o.nearest_hostile.angle.t = "absent" THEN 0
    ELSE IF o.nearest_hostile.angle.v < 0 THEN 0 - o.nearest_hostile.angle.v
    ELSE o.nearest_hostile.angle.v

ExpectedRule(o) ==
    ChainRule(HealthIn(o), ~IsNone(o.nearest_hostile), o.nearest_hostile.distance,
              AngleIn(o), NearbyIn(o))

\* C10: on every well-formed observation the policy returns the decision of
\* the first matching rule of the documented chain, with its thresholds;
\* swarm-flee wins over every later rule, health 5 / distance 3 / angle 10 /
\* no entities gives attack 0.95, health 20 / distance 7 / angle 0 / no
\* entities gives attack 0.6.
C10_FirstMatchingRule ==
    /\ (PolicyCalled /\ WellFormed(obs)) =>
          /\ ~action.raised
          /\ action.rule = ExpectedRule(obs)
          /\ action.action \in ChainActions(ExpectedRule(obs))
          /\ action.confidence = ChainConfidence(ExpectedRule(obs))
    /\ (PolicyCalled /\ WellFormed(obs) /\ ~IsNone(obs.nearest_hostile)
          /\ HealthIn(obs).t = "num" /\ HealthIn(obs).v > 4 /\ HealthIn(obs).v < 15
          /\ NearbyIn(obs) >= 3)
          => Decided("flee", 85)
    /\ (PolicyCalled /\ obs = Observation(Num(5), Hostile(Num(3), Num(10)), EntityList(<<>>)))
          => Decided("attack", 95)
    /\ (PolicyCalled /\ obs = Observation(Num(20), Hostile(Num(7), Num(0)), EntityList(<<>>)))
          => Decided("attack", 60)

\* swarm-flee met together with the conditions of rule 7
C10_Witness ==
    /\ PolicyCalled
    /\ obs = Observation(Num(14), Hostile(Num(3), Num(10)),
                         EntityList(<<Entity(Num(7)), Entity(Num(7)), Entity(Num(7))>>))
    /\ Decided("flee", 85)


\* ========================================================================
\* Further properties of handle_connection and main
\* ========================================================================
\* C11: the read loop issues no further read once the buffer holds a
\* newline or 8192 bytes.
C11_NoReadAtCap == hpc = "recv" => (dataLen < MaxData /\ ~HasNewline(msg, dataLen))

\* C13: every record the service writes has an action among attack,
\* strafe_left, strafe_right, flee and idle, never use_item, and a
\* confidence in (0, 1].
C13_ResponsesInSchema ==
    \A i \in DOMAIN out :
        /\ out[i].action \in {"attack", "strafe_left", "strafe_right", "flee", "idle"}
        /\ out[i].action # "use_item"
        /\ out[i].confidence > 0
        /\ out[i].confidence <= 100

C13_Witness ==
    /\ hpc = "returned"
    /\ policyCalls = 1
    /\ out = <<DecisionBytes(Ret("strafe_right", 75, 8), TRUE)>>

\* C14: whatever --model selects and however loading the model ends,
\* main reaches its loop with the rule-based engine as the policy the
\* handler invokes, and that never changes; the service only ever stops
\* on an exception out of a handler.
C14_PolicyIsRuleBased ==
    /\ mainPc # "start" => policy = "heuristic"
    /\ mainPc = "start" => policy = "unset"
    /\ model = "loaded" => modelArg = "vpt"
    /\ policyCalls > 0 => policy = "heuristic"
    /\ mainPc = "stopped" => hpc = "raised"

C14_Witness ==
    /\ modelArg = "vpt" /\ model = "loaded"
    /\ PolicyCalled
    /\ policy = "heuristic"
    /\ Decided("flee", 99)

\* the peer has sent a newline, or at least 8192 bytes, or has disconnected
ReadTrigger == HasNewline(msg, sent) \/ sent >= MaxData \/ peerState # "open"

\* C15: under fair scheduling of the server, a handler whose peer has sent
\* a newline, or at least 8192 bytes, or has disconnected, eventually
\* closes its stream.
C15_ReaderEventuallyCloses == (hpc = "recv" /\ ReadTrigger) ~> (closeCount = 1)

\* C16: per connection the bytes are decoded at most once, the policy is
\* invoked at most once and only after a successful decode, and at most one
\* complete record is written, nothing after it.
C16_HandledAtMostOnce ==
    /\ decodeCalls <= 1
    /\ policyCalls <= 1
    /\ policyCalls = 1 => (decodeCalls = 1 /\ json_loads(msg, dataLen).ok)
    /\ Cardinality({i \in DOMAIN out : out[i].complete}) <= 1
    /\ \A i \in DOMAIN out : out[i].complete => i = Len(out)

C16_Witness ==
    /\ HandlerDone
    /\ decodeCalls = 1 /\ policyCalls = 1
    /\ out = <<DecisionBytes(action, TRUE)>>

\* C20: when the peer closes after sending at least one byte and no
\* newline, the handler decodes what it received and, the peer not having
\* reset the connection, writes exactly one response before it closes: the
\* policy's decision if the bytes decode and the policy returns, the
\* fallback otherwise.
C20_UnterminatedRequestAnswered ==
    /\ (eof /\ dataLen > 0 /\ hpc \notin {"recv", "decode"}) => decodeCalls = 1
    /\ (eof /\ dataLen > 0 /\ HandlerDone /\ peerState = "closed") =>
          /\ hpc = "returned"
          /\ closeCount = 1
          /\ out = <<IF json_loads(msg, dataLen).ok /\ ~action.raised
                     THEN DecisionBytes(action, TRUE)
                     ELSE FallbackBytes>>

C20_Witness ==
    /\ eof /\ dataLen > 0 /\ ~msg.nl /\ dataLen < MaxData
    /\ hpc = "returned"
    /\ out = <<DecisionBytes(action, TRUE)>>

\* ========================================================================
\* Further properties of heuristic_policy, under SpecPolicy
\* ========================================================================
\* every outcome random.choice allows for a call on o
PossibleOutcomes(o) == {heuristic_policy(o, c) : c \in Coins}

\* C12: a call that does not end at rule 8 has the outcome every other call
\* on the same observation has.
C12_DeterministicOutsideRule8 ==
    (PolicyCalled /\ action.rule # 8) => \A c \in Coins : heuristic_policy(obs, c) = action

C12_Witness ==
    /\ PolicyCalled
    /\ obs = Observation(Num(20), Hostile(Num(3), Num(-91)), EntityList(<<>>))
    /\ Decided("strafe_left", 70)

\* C17: an observation whose nearest_hostile is null (or missing) returns at
\* rule 1 or rule 2; the only other way out is the TypeError of line 28 on a
\* bot_health that is not a number, before the hostile is used.
C17_NullHostileNeverRead ==
    (PolicyCalled /\ obs.t = "rec" /\ obs.nearest_hostile.t \in {"null", "absent"}) =>
        /\ IsNum(HealthIn(obs)) => (~action.raised /\ action.rule \in {1, 2})
        /\ action.raised => (~IsNum(HealthIn(obs)) /\ action.exc = "TypeError")

C17_Witness ==
    /\ PolicyCalled
    /\ obs = Observation(Num(5), HostileKeyMissing, EntityList(<<EntityNotRecord>>))
    /\ Decided("idle", 95)

HostileDistanceIn(o) == o.nearest_hostile.distance

\* C18 as stated: with a numeric hostile distance rule 9 is never reached.
C18_Rule9Unreachable ==
    (PolicyCalled /\ obs.t = "rec" /\ obs.nearest_hostile.t = "rec"
       /\ IsNum(HostileDistanceIn(obs)))
        => action.rule # 9

\* C18 amended: with a hostile distance that is a number other than NaN
\* rule 9 is never reached.
C18_Rule9UnreachableUnlessNaN ==
    (PolicyCalled /\ obs.t = "rec" /\ obs.nearest_hostile.t = "rec"
       /\ HostileDistanceIn(obs).t = "num")
        => action.rule # 9

C18_Witness ==
    /\ PolicyCalled
    /\ obs = Observation(Num(20), Hostile(Num(6), Num(0)), EntityList(<<>>))
    /\ action.rule = 8

\* the conditions under which the chain arrives at rule 8
Rule8Case(o) ==
    /\ WellFormed(o)
    /\ ~IsNone(o.nearest_hostile)
    /\ HealthIn(o).t = "num" /\ HealthIn(o).v > 4
    /\ ~(NearbyIn(o) >= 3 /\ HealthIn(o).v < 15)
    /\ AngleIn(o) <= 90
    /\ HostileDistanceIn(o).t = "num" /\ HostileDistanceIn(o).v <= 6
    /\ ~(HostileDistanceIn(o).v <= 3 /\ AngleIn(o) < 45)

\* C19: an observation that reaches rule 8 gets confidence 0.75 and either
\* of strafe_left and strafe_right, both possible and nothing else; no
\* other call has more than one possible outcome.
C19_Rule8CoinFlip ==
    PolicyCalled =>
        /\ Rule8Case(obs) =>
              /\ ~action.raised /\ action.rule = 8 /\ action.confidence = 75
              /\ {r.action : r \in PossibleOutcomes(obs)} = {"strafe_left", "strafe_right"}
              /\ \A r \in PossibleOutcomes(obs) : ~r.raised /\ r.confidence = 75
        /\ action.rule # 8 => Cardinality(PossibleOutcomes(obs)) = 1

C19_Witness ==
    /\ PolicyCalled
    /\ obs = Observation(Num(20), Hostile(Num(4), Num(0)), EntityList(<<>>))
    /\ Decided("strafe_right", 75)

====
